---------------------------- MODULE Spec2Model ----------------------------
(***************************************************************************)
(* Model of the Draggable class of src/motion.js (lines 1-578): the drag   *)
(* state machine (onMouseDown / onMouseMove / onMouseUp), the deceleration *)
(* loop (animateDeceleration / progressAnimations) and the bounds helper   *)
(* (getBoundsRelativeTo).                                                  *)
(*                                                                         *)
(* JavaScript numbers are modelled as exact rationals <<n, d>> in lowest   *)
(* terms with d > 0, extended with the three non-finite doubles:           *)
(* <<1, 0>> = Infinity, <<-1, 0>> = -Infinity, <<0, 0>> = NaN.  Negative   *)
(* zero is not distinguished from zero: no code path of the class divides  *)
(* by a value that can be -0 (every divisor is a Date.now() difference or  *)
(* the literal 100).                                                       *)
(*                                                                         *)
(* Date.now() is an input of the environment.  Every handler reads the     *)
(* clock once per object it touches and only ever uses the difference to   *)
(* cache.time, so the model draws that difference (deltaTime) from a small *)
(* set instead of storing absolute times.                                  *)
(***************************************************************************)
EXTENDS Integers, Sequences, FiniteSets, TLC

(***************************************************************************)
(* Numbers                                                                 *)
(***************************************************************************)
RECURSIVE GCD(_, _)
GCD(a, b) == IF b = 0 THEN a ELSE GCD(b, a % b)

IAbs(n) == IF n < 0 THEN -n ELSE n

ISign(n) == IF n > 0 THEN 1 ELSE IF n < 0 THEN -1 ELSE 0

NaN == <<0, 0>>
PosInf == <<1, 0>>
NegInf == <<-1, 0>>

\* n/d as a number in normal form (d = 0 gives Infinity, -Infinity or NaN).
Q(n, d) ==
    IF d = 0 THEN <<ISign(n), 0>>
    ELSE LET g == GCD(IAbs(n), IAbs(d))
             s == IF d < 0 THEN -1 ELSE 1
         IN  <<s * (n \div g), s * (d \div g)>>

I(n) == <<n, 1>>

Zero == I(0)
One == I(1)

IsNaN(x) == x = NaN
IsFinite(x) == x[2] # 0
IsInf(x) == x[2] = 0 /\ x[1] # 0
Sgn(x) == ISign(x[1])

Neg(x) == <<-x[1], x[2]>>

Add(x, y) ==
    IF IsNaN(x) \/ IsNaN(y) THEN NaN
    ELSE IF IsInf(x) /\ IsInf(y) THEN (IF x = y THEN x ELSE NaN)
    ELSE IF IsInf(x) THEN x
    ELSE IF IsInf(y) THEN y
    ELSE LET g == GCD(x[2], y[2])
         IN  Q(x[1] * (y[2] \div g) + y[1] * (x[2] \div g), x[2] * (y[2] \div g))

Sub(x, y) == Add(x, Neg(y))

Mul(x, y) ==
    IF IsNaN(x) \/ IsNaN(y) THEN NaN
    ELSE IF IsInf(x) \/ IsInf(y)
         THEN (IF Sgn(x) = 0 \/ Sgn(y) = 0 THEN NaN ELSE <<Sgn(x) * Sgn(y), 0>>)
    ELSE LET g1 == GCD(IAbs(x[1]), y[2])
             g2 == GCD(IAbs(y[1]), x[2])
         IN  Q((x[1] \div g1) * (y[1] \div g2), (x[2] \div g2) * (y[2] \div g1))

\* JavaScript x / y for a divisor that is never -0.
Div(x, y) ==
    IF IsNaN(x) \/ IsNaN(y) THEN NaN
    ELSE IF IsInf(x) /\ IsInf(y) THEN NaN
    ELSE IF IsInf(y) THEN Zero
    ELSE IF IsInf(x) THEN (IF Sgn(y) < 0 THEN Neg(x) ELSE x)
    ELSE IF Sgn(y) = 0 THEN <<Sgn(x), 0>>
    ELSE Mul(x, Q(y[2], y[1]))

\* x < y (false whenever an operand is NaN).
Lt(x, y) ==
    IF IsNaN(x) \/ IsNaN(y) THEN FALSE
    ELSE IF IsInf(x) \/ IsInf(y)
         THEN (IF IsInf(x) /\ IsInf(y) THEN x[1] < y[1]
               ELSE IF IsInf(x) THEN x[1] < 0
               ELSE y[1] > 0)
    ELSE x[1] * y[2] < y[1] * x[2]

Gt(x, y) == Lt(y, x)

\* x === y on numbers (NaN is not equal to itself).
StrictEq(x, y) == ~IsNaN(x) /\ ~IsNaN(y) /\ x = y

Leq(x, y) == Lt(x, y) \/ StrictEq(x, y)

\* Math.min / Math.max of two numbers.
MathMin(x, y) == IF IsNaN(x) \/ IsNaN(y) THEN NaN ELSE IF Lt(y, x) THEN y ELSE x
MathMax(x, y) == IF IsNaN(x) \/ IsNaN(y) THEN NaN ELSE IF Lt(x, y) THEN y ELSE x

MathAbs(x) == <<IAbs(x[1]), x[2]>>

\* Truthiness of a number: false for 0 and NaN.
Truthy(x) == ~IsNaN(x) /\ Sgn(x) # 0

\* ~~x for |x| < 2^31: truncation toward zero; NaN and the infinities give 0.
ToInt32(x) ==
    IF ~IsFinite(x) THEN Zero
    ELSE IF x[1] >= 0 THEN I(x[1] \div x[2])
    ELSE I(-((-x[1]) \div x[2]))

Axes == {"X", "Y"}
XY(x, y) == [X |-> x, Y |-> y]
ZeroXY == XY(Zero, Zero)


(***************************************************************************)
(* Bounds of the model and inputs of the environment                       *)
(***************************************************************************)
\* Number of draggable objects matched by the selector.
NumObjects == 2

Objects == 1 .. NumObjects

\* currentObject = null.
NULL == 0

\* cache.time differences seen by onMouseMove and onMouseUp (ms).
MoveDeltas == {250}
UpDeltas == {20, 30}

\* Time between two frame callbacks, and the time between an enqueue and the
\* first frame that processes the object (never more than a whole frame).
FrameDeltas == {1000}
FirstFrameDeltas == {500, 1000}

\* Where the user grabs an object (offset of the cursor in the object).
GrabPoints == {XY(I(10), I(5))}

\* clientX / clientY of mousemove events.
ClientXs == {230, 480}
ClientYs == {115}

\* The wider inputs of the drag-only specification.
DragMoveDeltas == {0, 250}
DragUpDeltas == {20, 25, 26, 30}
DragClientXs == {-10, 230, 480}
DragClientYs == {115, 285}

\* The settings objects passed to the constructor (merged over the defaults
\* of lines 20-25).
SettingsChoices ==
    { [edgeFriction |-> Q(3, 4), friction |-> I(1), bounceFriction |-> Q(1, 2), deceleration |-> TRUE],
      [edgeFriction |-> I(1), friction |-> I(1), bounceFriction |-> I(0), deceleration |-> TRUE],
      [edgeFriction |-> I(0), friction |-> I(2), bounceFriction |-> I(1), deceleration |-> TRUE],
      [edgeFriction |-> Q(3, 4), friction |-> I(1), bounceFriction |-> Q(1, 2), deceleration |-> FALSE] }

(***************************************************************************)
(* The document: the container, the laid-out objects and what              *)
(* getBoundingClientRect / getComputedStyle answer for them                *)
(***************************************************************************)
MakeRect(left, top, width, height) ==
    [left |-> left, top |-> top, right |-> Add(left, width), bottom |-> Add(top, height),
     width |-> width, height |-> height]

ContainerRect == MakeRect(I(20), I(10), I(500), I(300))
ContainerMargin == ZeroXY

\* Size and margin of object o; every object is laid out at the container's
\* origin (offset by its margin) and moved only by its transform.
ObjectSize(o) == [width |-> I(100), height |-> I(50)]
ObjectMargin(o) == IF o % 2 = 1 THEN ZeroXY ELSE XY(I(10), I(20))

IdentityMatrix == <<One, Zero, Zero, One, Zero, Zero>>

\* object.getBoundingClientRect() for an object whose style.transform is m.
BoundingClientRect(o, m) ==
    MakeRect(Add(Add(ContainerRect.left, ObjectMargin(o).X), m[5]),
             Add(Add(ContainerRect.top, ObjectMargin(o).Y), m[6]),
             Mul(ObjectSize(o).width, m[1]),
             Mul(ObjectSize(o).height, m[4]))

(***************************************************************************)
(* Static helpers                                                          *)
(***************************************************************************)
\* A variant of getBoundsRelativeTo that keeps the margin in the maximum of an
\* oversized axis.
getBoundsRelativeTo_KeepsMargin(objectMargin, objectRect, toRect) ==
    [minX |-> IF Gt(objectRect.width, toRect.width)
              THEN Neg(Sub(objectRect.width, toRect.width)) ELSE objectMargin.X,
     minY |-> IF Gt(objectRect.height, toRect.height)
              THEN Neg(Sub(objectRect.height, toRect.height)) ELSE objectMargin.Y,
     maxX |-> IF Gt(objectRect.width, toRect.width) THEN objectMargin.X
              ELSE Sub(Sub(toRect.width, objectRect.width), objectMargin.X),
     maxY |-> IF Gt(objectRect.height, toRect.height) THEN objectMargin.X
              ELSE Sub(Sub(toRect.height, objectRect.height), objectMargin.X)]

\* Draggable.getBoundsRelativeTo on the cached margin and rectangles.
getBoundsRelativeTo(objectMargin, objectRect, toRect) ==
    LET bounds == [minX |-> Add(Zero, objectMargin.X),
                   minY |-> Add(Zero, objectMargin.Y),
                   maxX |-> Sub(Sub(Sub(toRect.right, toRect.left),
                                    Sub(objectRect.right, objectRect.left)), objectMargin.X),
                   maxY |-> Sub(Sub(Sub(toRect.bottom, toRect.top),
                                    Sub(objectRect.bottom, objectRect.top)), objectMargin.X)]
        afterX == IF Gt(objectRect.width, toRect.width)
                  THEN [bounds EXCEPT !.minX = Neg(Sub(objectRect.width, toRect.width)),
                                      !.maxX = Zero]
                  ELSE bounds
    IN  IF Gt(objectRect.height, toRect.height)
        THEN [afterX EXCEPT !.minY = Neg(Sub(objectRect.height, toRect.height)),
                            !.maxY = Zero]
        ELSE afterX

\* Draggable.getCursorPositionRelativeTo(event, to) for to's cached rect.
getCursorPositionRelativeTo(client, rect) ==
    XY(Sub(client.X, rect.left), Sub(client.Y, rect.top))

BoundOf(objectBounds, bound, axis) ==
    IF bound = "min" THEN (IF axis = "X" THEN objectBounds.minX ELSE objectBounds.minY)
    ELSE (IF axis = "X" THEN objectBounds.maxX ELSE objectBounds.maxY)

\* Math[bound](a, b) for bound in {"min", "max"}.
MathBound(bound, a, b) == IF bound = "min" THEN MathMin(a, b) ELSE MathMax(a, b)

\* Draggable.setObjectMatrix: the matrix written to style.transform.
setObjectMatrix(c, position) ==
    [c.matrix EXCEPT
        ![5] = Sub(Sub(position.X, c.margin.X), Mul(Sub(One, c.matrix[1]), c.rect.width)),
        ![6] = Sub(Sub(position.Y, c.margin.Y), Mul(Sub(One, c.matrix[4]), c.rect.height))]


(***************************************************************************)
(* State                                                                   *)
(***************************************************************************)
VARIABLES
    settings,              \* this.settings
    currentObject,         \* this.currentObject (NULL or an object)
    decelerationStack,     \* this.decelerationStack
    stackLength,           \* this.stackLength
    animationLoopRunning,  \* this.animationLoopRunning
    frameRequests,         \* pending window.requestAnimationFrame callbacks
    enabled,               \* object.__draggable_enabled
    mouseIsDown,           \* object.__draggable_mouseIsDown
    cache,                 \* object.__draggable_cache
    transform,             \* object.style.transform, as a matrix
    enqueuedSinceFrame,    \* animateDeceleration wrote cache.time after the last frame
    call,                  \* the handler that ran last and its arguments
    emitted,               \* the events that handler triggered, in order
    coast,                 \* history: phase of the object's current coast
    endCount,              \* history: deceleration-end events of that coast
    drags,                 \* history: number of mousedown events so far
    args,                  \* arguments of a static helper called on its own
    result,                \* <<what the helper returned for them>>, once called
    events,                \* this.events: the listeners of each event type
    invoked,               \* history: the handlers the last call ran, in order
    thrown                 \* history: the last call of on/off/once/trigger threw

engine == <<settings, currentObject, decelerationStack, stackLength, animationLoopRunning,
            frameRequests, enabled, mouseIsDown, cache, transform, enqueuedSinceFrame,
            call, emitted, coast, endCount, drags>>

bus == <<events, invoked, thrown>>

vars == <<engine, args, result, bus>>

\* The event types of lines 31-39.
EventNames ==
    {"drag-end", "drag-start", "drag-move", "deceleration-start", "deceleration-end",
     "decelerate", "stop"}

\* Number of mousedown events in a run of the model.
MaxDrags == 3

\* endCount saturates here.
CountCap == 2

\* The cache of an object that no handler has touched yet.
EmptyCache ==
    [margin |-> ZeroXY, rect |-> MakeRect(Zero, Zero, Zero, Zero),
     initialCursorPosRelativeToObject |-> ZeroXY,
     objectBounds |-> [minX |-> Zero, minY |-> Zero, maxX |-> Zero, maxY |-> Zero],
     velocity |-> ZeroXY, hasMoved |-> FALSE, position |-> ZeroXY,
     matrix |-> IdentityMatrix]

\* One triggered event: its name, its (object, position) arguments and the
\* deceleration stack as a listener sees it when it is called.
Event(name, object, position, stack) ==
    [name |-> name, object |-> object, position |-> position, stack |-> stack]

EngineInit ==
    /\ settings \in SettingsChoices
    /\ currentObject = NULL
    /\ decelerationStack = <<>>
    /\ stackLength = 0
    /\ animationLoopRunning = FALSE
    /\ frameRequests = 0
    /\ enabled = [o \in Objects |-> TRUE]
    /\ mouseIsDown = [o \in Objects |-> FALSE]
    /\ cache = [o \in Objects |-> EmptyCache]
    /\ transform = [o \in Objects |-> IdentityMatrix]
    /\ enqueuedSinceFrame = [o \in Objects |-> FALSE]
    /\ call = [handler |-> "constructor", object |-> NULL]
    /\ emitted = <<>>
    /\ coast = [o \in Objects |-> "none"]
    /\ endCount = [o \in Objects |-> 0]
    /\ drags = 0
    /\ events = [e \in EventNames |-> <<>>]
    /\ invoked = <<>>
    /\ thrown = FALSE

Init ==
    /\ EngineInit
    /\ args = <<>>
    /\ result = <<>>

(***************************************************************************)
(* Array helpers                                                           *)
(***************************************************************************)
\* Array.prototype.indexOf, 1-based; 0 stands for -1.
IndexOf(seq, x) ==
    IF \E i \in 1 .. Len(seq) : seq[i] = x
    THEN CHOOSE i \in 1 .. Len(seq) : seq[i] = x /\ \A j \in 1 .. (i - 1) : seq[j] # x
    ELSE 0

\* seq.splice(i, 1) for a 1-based i; an index past the end removes nothing.
Splice(seq, i) ==
    IF i >= 1 /\ i <= Len(seq)
    THEN SubSeq(seq, 1, i - 1) \o SubSeq(seq, i + 1, Len(seq))
    ELSE seq

\* toRemoveFromStack.forEach(index => stack.splice(index, 1)), indices 1-based.
RECURSIVE SpliceAll(_, _)
SpliceAll(seq, indices) ==
    IF indices = <<>> THEN seq
    ELSE SpliceAll(Splice(seq, Head(indices)), Tail(indices))

Count(seq, x) == Cardinality({i \in 1 .. Len(seq) : seq[i] = x})


(***************************************************************************)
(* onMouseDown                                                             *)
(***************************************************************************)
\* Draggable.cacheProperties(object): margin and bounding rectangle.
cacheProperties(c, o) ==
    [c EXCEPT !.margin = ObjectMargin(o), !.rect = BoundingClientRect(o, transform[o])]

\* Line 211: the position is the difference of the two cursor offsets.
StartPosition(cursorPosRelativeToContainer, cursorPosRelativeToObject) ==
    XY(Sub(cursorPosRelativeToContainer.X, cursorPosRelativeToObject.X),
       Sub(cursorPosRelativeToContainer.Y, cursorPosRelativeToObject.Y))

\* Lines 202-224: Object.assign on the refreshed cache c of object o.
AssignMouseDown(c, o, client) ==
    [c EXCEPT !.initialCursorPosRelativeToObject = getCursorPositionRelativeTo(client, c.rect),
              !.objectBounds = getBoundsRelativeTo(c.margin, c.rect, ContainerRect),
              !.velocity = ZeroXY,
              !.hasMoved = FALSE,
              !.position = StartPosition(getCursorPositionRelativeTo(client, ContainerRect),
                                         getCursorPositionRelativeTo(client, c.rect)),
              !.matrix = transform[o]]

\* The cache written by onMouseDown (lines 198-224) for a mousedown at client.
MouseDownCache(o, client) == AssignMouseDown(cacheProperties(cache[o], o), o, client)

\* A variant of RemoveFromStack that leaves the stack as it is.
RemoveFromStack_Keeps(stack, o) == stack

\* Lines 226-232: the re-grabbed object leaves the deceleration stack.
RemoveFromStack(stack, o) ==
    IF IndexOf(stack, o) # 0 THEN Splice(stack, IndexOf(stack, o)) ELSE stack

\* Line 231: --this.stackLength, only when the object was found.
LengthAfterGrab(length, stack, o) == IF IndexOf(stack, o) # 0 THEN length - 1 ELSE length

\* Lines 213-238 once the new cache c and the new stack are computed.
StartDrag(o, c, stack) ==
    /\ cache' = [cache EXCEPT ![o] = c]
    /\ decelerationStack' = stack
    /\ stackLength' = LengthAfterGrab(stackLength, decelerationStack, o)
    /\ mouseIsDown' = [mouseIsDown EXCEPT ![o] = TRUE]
    /\ currentObject' = o
    /\ emitted' = <<Event("drag-start", o, c.position, stack)>>
    /\ coast' = [coast EXCEPT ![o] = "none"]
    /\ UNCHANGED <<settings, animationLoopRunning, frameRequests, enabled,
                   transform, enqueuedSinceFrame, endCount>>

\* A variant of IsEnabled that takes every object as enabled.
IsEnabled_Always(o) == TRUE

\* Draggable.enabled(object).
IsEnabled(o) == enabled[o] = TRUE

onMouseDown(o, client) ==
    /\ drags < MaxDrags
    /\ drags' = drags + 1
    /\ call' = [handler |-> "onMouseDown", object |-> o, client |-> client]
    /\ IF ~IsEnabled(o)
       THEN /\ emitted' = <<>>
            /\ UNCHANGED <<settings, currentObject, decelerationStack, stackLength,
                           animationLoopRunning, frameRequests, enabled, mouseIsDown,
                           cache, transform, enqueuedSinceFrame, coast, endCount>>
       ELSE StartDrag(o, MouseDownCache(o, client), RemoveFromStack(decelerationStack, o))

(***************************************************************************)
(* onMouseMove                                                             *)
(***************************************************************************)
\* A variant of ApplyEdge that damps the distance to the bound on every pass.
ApplyEdge_Always(position, objectBounds, bound, axis) ==
    Add(BoundOf(objectBounds, bound, axis),
        Mul(Sub(position, BoundOf(objectBounds, bound, axis)),
            Sub(One, settings.edgeFriction)))

\* Lines 266-270: one pass of the ['min', 'max'] loop for one axis.
ApplyEdge(position, objectBounds, bound, axis) ==
    IF StrictEq(MathBound(bound, position, BoundOf(objectBounds, bound, axis)), position)
    THEN Add(BoundOf(objectBounds, bound, axis),
             Mul(Sub(position, BoundOf(objectBounds, bound, axis)),
                 Sub(One, settings.edgeFriction)))
    ELSE position

\* Line 264: the raw target of one axis.
RawTarget(cursorPos, grabPos) == Sub(cursorPos, grabPos)

\* A variant of DragPosition that clamps the raw target to the bounds.
DragPosition_Clamped(cursorPos, grabPos, objectBounds, axis) ==
    MathMin(BoundOf(objectBounds, "max", axis),
            MathMax(BoundOf(objectBounds, "min", axis), RawTarget(cursorPos, grabPos)))

\* Lines 264-270: the position of one axis for a cursor at cursorPos.
DragPosition(cursorPos, grabPos, objectBounds, axis) ==
    ApplyEdge(ApplyEdge(RawTarget(cursorPos, grabPos), objectBounds, "min", axis),
              objectBounds, "max", axis)

\* Lines 263-271 for both axes.
DragPositionXY(c, cursorPosRelativeToContainer) ==
    XY(DragPosition(cursorPosRelativeToContainer.X, c.initialCursorPosRelativeToObject.X,
                    c.objectBounds, "X"),
       DragPosition(cursorPosRelativeToContainer.Y, c.initialCursorPosRelativeToObject.Y,
                    c.objectBounds, "Y"))

\* Line 275: the velocity of the move.
MoveVelocity(position, previous, deltaTime) ==
    XY(Div(Sub(position.X, previous.X), I(deltaTime)),
       Div(Sub(position.Y, previous.Y), I(deltaTime)))

\* Line 281: setObjectMatrix on the cache c.
WithMatrix(c, position) == [c EXCEPT !.matrix = setObjectMatrix(c, position)]

\* Lines 273-281 once the position is computed.
AssignMouseMove(c, position, deltaTime) ==
    WithMatrix([c EXCEPT !.velocity = MoveVelocity(position, c.position, deltaTime),
                         !.position = position,
                         !.hasMoved = TRUE],
               position)

\* The cache written by onMouseMove (lines 255-281).
MouseMoveCache(c, client, deltaTime) ==
    AssignMouseMove(c, DragPositionXY(c, getCursorPositionRelativeTo(client, ContainerRect)),
                    deltaTime)

\* Lines 277-283 once the new cache c is computed.
MoveDrag(o, c) ==
    /\ cache' = [cache EXCEPT ![o] = c]
    /\ transform' = [transform EXCEPT ![o] = c.matrix]
    /\ emitted' = <<Event("drag-move", o, c.position, decelerationStack)>>

onMouseMove(client, deltaTime) ==
    /\ call' = [handler |-> "onMouseMove", object |-> currentObject, client |-> client]
    /\ IF currentObject = NULL
       THEN /\ emitted' = <<>>
            /\ UNCHANGED <<cache, transform>>
       ELSE IF ~mouseIsDown[currentObject]
       THEN /\ emitted' = <<>>
            /\ UNCHANGED <<cache, transform>>
       ELSE MoveDrag(currentObject, MouseMoveCache(cache[currentObject], client, deltaTime))
    /\ UNCHANGED <<settings, currentObject, decelerationStack, stackLength,
                   animationLoopRunning, frameRequests, enabled, mouseIsDown,
                   enqueuedSinceFrame, coast, endCount, drags>>

(***************************************************************************)
(* onMouseUp and animateDeceleration                                       *)
(***************************************************************************)
\* The pause threshold of line 304 (ms).
PauseThreshold == 25

\* The divisor of the spring-back velocity of line 311.
SpringDivisor == 100

\* A variant of PauseVelocity that keeps the velocity after a pause.
PauseVelocity_Keeps(c, deltaTime) == c.velocity

\* Lines 304-306: a pause before the release zeroes the velocity.
PauseVelocity(c, deltaTime) ==
    IF deltaTime > PauseThreshold /\ c.hasMoved THEN ZeroXY ELSE c.velocity

\* Lines 309-312: one pass of the ['min', 'max'] loop for one axis.
SpringBack(velocity, position, objectBounds, bound, axis) ==
    IF StrictEq(MathBound(bound, position, BoundOf(objectBounds, bound, axis)), position)
    THEN Neg(Div(Sub(position, BoundOf(objectBounds, bound, axis)), I(SpringDivisor)))
    ELSE velocity

\* Lines 304-313: the velocity of one axis at the release.
ReleaseVelocity(c, deltaTime, axis) ==
    SpringBack(SpringBack(PauseVelocity(c, deltaTime)[axis], c.position[axis],
                          c.objectBounds, "min", axis),
               c.position[axis], c.objectBounds, "max", axis)

\* A variant of Decelerates that asks for a velocity on both axes.
Decelerates_BothAxes(velocity) ==
    /\ settings.deceleration
    /\ Gt(MathAbs(velocity.X), Zero)
    /\ Gt(MathAbs(velocity.Y), Zero)

\* A variant of Decelerates that starts a deceleration at every release.
Decelerates_Always(velocity) == TRUE

\* Lines 317-322: the release starts a deceleration.
Decelerates(velocity) ==
    /\ settings.deceleration
    /\ \/ Gt(MathAbs(velocity.X), Zero)
       \/ Gt(MathAbs(velocity.Y), Zero)

\* A variant of StartsLoop that ignores the animationLoopRunning flag.
StartsLoop_Unflagged(running, length) == length # 0

\* Lines 346-352: animateDeceleration starts the frame loop.
StartsLoop(running, length) == ~running /\ length # 0

\* Lines 304-313 for both axes.
ReleaseVelocityXY(c, deltaTime) ==
    XY(ReleaseVelocity(c, deltaTime, "X"), ReleaseVelocity(c, deltaTime, "Y"))

\* animateDeceleration (lines 337-353) for object o, after the events so far.
animateDeceleration(o, position, triggered) ==
    /\ emitted' = Append(triggered, Event("deceleration-start", o, position, decelerationStack))
    /\ decelerationStack' = Append(decelerationStack, o)
    /\ stackLength' = Len(decelerationStack) + 1
    /\ enqueuedSinceFrame' = [enqueuedSinceFrame EXCEPT ![o] = TRUE]
    /\ animationLoopRunning' =
           (animationLoopRunning
            \/ StartsLoop(animationLoopRunning, Len(decelerationStack) + 1))
    /\ frameRequests' =
           IF StartsLoop(animationLoopRunning, Len(decelerationStack) + 1)
           THEN frameRequests + 1 ELSE frameRequests
    /\ coast' = [coast EXCEPT ![o] = "started"]
    /\ endCount' = [endCount EXCEPT ![o] = 0]

\* Lines 315-329 once the release velocity is computed.
EndDrag(o, position, velocity) ==
    /\ cache' = [cache EXCEPT ![o].velocity = velocity]
    /\ currentObject' = NULL
    /\ IF Decelerates(velocity)
       THEN animateDeceleration(o, position,
                                <<Event("drag-end", o, position, decelerationStack)>>)
       ELSE /\ emitted' = <<Event("drag-end", o, position, decelerationStack),
                            Event("stop", o, position, decelerationStack)>>
            /\ UNCHANGED <<decelerationStack, stackLength, animationLoopRunning,
                           frameRequests, enqueuedSinceFrame, coast, endCount>>

onMouseUp(deltaTime) ==
    /\ call' = [handler |-> "onMouseUp", object |-> currentObject, deltaTime |-> deltaTime]
    /\ IF currentObject = NULL
       THEN /\ emitted' = <<>>
            /\ UNCHANGED <<currentObject, decelerationStack, stackLength,
                           animationLoopRunning, frameRequests, cache, enqueuedSinceFrame,
                           coast, endCount>>
       ELSE EndDrag(currentObject, cache[currentObject].position,
                    ReleaseVelocityXY(cache[currentObject], deltaTime))
    /\ UNCHANGED <<settings, enabled, mouseIsDown, transform, drags>>

(***************************************************************************)
(* progressAnimations                                                      *)
(***************************************************************************)
\* Milliseconds per second, the divisor of line 377.
MsPerSecond == 1000

\* The stop threshold of line 391 (px/ms).
StopThreshold == Q(1, 1000)

\* Line 377: the velocity after friction.
Decay(velocity, deltaTime) ==
    Mul(velocity, Sub(One, Mul(Div(I(deltaTime), I(MsPerSecond)), settings.friction)))

\* Lines 379-381: the position advances by the decayed velocity.
Advance(position, velocity, deltaTime) ==
    IF Truthy(velocity) THEN Add(position, Mul(velocity, I(deltaTime))) ELSE position

\* Math[bound](1, -1).
OutwardSign(bound) == IF bound = "min" THEN -1 ELSE 1

\* Lines 384-387: one pass of the ['min', 'max'] loop; vp = [velocity, position].
Bounce(vp, objectBounds, bound, axis) ==
    IF /\ StrictEq(MathBound(bound, vp.position, BoundOf(objectBounds, bound, axis)),
                   vp.position)
       /\ ~IsNaN(vp.velocity)
       /\ Sgn(vp.velocity) = OutwardSign(bound)
    THEN [velocity |-> Neg(Mul(vp.velocity, Sub(One, settings.bounceFriction))),
          position |-> BoundOf(objectBounds, bound, axis)]
    ELSE vp

\* Lines 377-381 for one axis: [velocity, position] before the bounce.
Moved(velocity, position, deltaTime) ==
    [velocity |-> velocity, position |-> Advance(position, velocity, deltaTime)]

\* A variant of DecelerateAxis that advances by the velocity before friction.
DecelerateAxis_PreDecay(velocity, position, deltaTime, objectBounds, axis) ==
    Bounce(Bounce([velocity |-> Decay(velocity, deltaTime),
                   position |-> Advance(position, velocity, deltaTime)],
                  objectBounds, "min", axis),
           objectBounds, "max", axis)

\* Lines 376-389 for one axis: the new [velocity, position].
DecelerateAxis(velocity, position, deltaTime, objectBounds, axis) ==
    Bounce(Bounce(Moved(Decay(velocity, deltaTime), position, deltaTime),
                  objectBounds, "min", axis),
           objectBounds, "max", axis)

\* Line 391: the object is marked for removal.
BelowThreshold(velocity) ==
    /\ Lt(MathAbs(velocity.X), StopThreshold)
    /\ Lt(MathAbs(velocity.Y), StopThreshold)

\* Line 393: the final position of a marked object.
RestPosition(position) == XY(ToInt32(position.X), ToInt32(position.Y))

\* Lines 391-405 once both axes are computed: the new cache and the mark.
Settle(c, velocity, position, marked) ==
    [cache |-> WithMatrix([c EXCEPT !.position = position, !.velocity = velocity], position),
     marked |-> marked]

\* Lines 391-399: the position stored for the frame.
FramePosition(velocity, position) ==
    IF BelowThreshold(velocity) THEN RestPosition(position) ELSE position

\* Lines 376-405 from the two axes' results x and y.
SettleAxes(c, x, y) ==
    Settle(c, XY(x.velocity, y.velocity),
           FramePosition(XY(x.velocity, y.velocity), XY(x.position, y.position)),
           BelowThreshold(XY(x.velocity, y.velocity)))

\* Lines 367-405 for one object: its new cache and whether it was marked.
ProcessObject(c, deltaTime) ==
    SettleAxes(c,
               DecelerateAxis(c.velocity.X, c.position.X, deltaTime, c.objectBounds, "X"),
               DecelerateAxis(c.velocity.Y, c.position.Y, deltaTime, c.objectBounds, "Y"))

\* The visits of stack.forEach (lines 366-406) to object o: visit n of an object
\* reads the cache that visit n - 1 wrote.  A second visit within one frame
\* reads the time the first one wrote, so its deltaTime is 0.
Visits(o, deltaTime, n) ==
    LET visit[k \in 0 .. n] ==
            IF k = 0 THEN [cache |-> cache[o], marked |-> FALSE]
            ELSE ProcessObject(visit[k - 1].cache, IF k = 1 THEN deltaTime ELSE 0)
    IN  visit

\* Which visit of its object the i-th entry of the stack is.
VisitNumber(stack, i) == Cardinality({j \in 1 .. i : stack[j] = stack[i]})

\* Line 398: toRemoveFromStack, the indices (from 1) of the marked visits.
MarkedIndices(stack, visits) ==
    SelectSeq([i \in 1 .. Len(stack) |-> i],
              LAMBDA i : visits[stack[i]][VisitNumber(stack, i)].marked)

\* Lines 395-396: the events of the marked visits, in stack order.
EndEvents(stack, visits, toRemoveFromStack) ==
    [k \in 1 .. (2 * Len(toRemoveFromStack)) |->
        Event(IF k % 2 = 1 THEN "deceleration-end" ELSE "stop",
              stack[toRemoveFromStack[(k + 1) \div 2]],
              visits[stack[toRemoveFromStack[(k + 1) \div 2]]]
                    [VisitNumber(stack, toRemoveFromStack[(k + 1) \div 2])].cache.position,
              stack)]

\* stack.forEach of lines 366-406 from the visits of every object: the caches
\* written, toRemoveFromStack and the events triggered.
Collect(stack, visits, toRemoveFromStack) ==
    [cache |-> [o \in Objects |-> visits[o][Count(stack, o)].cache],
     toRemoveFromStack |-> toRemoveFromStack,
     emitted |-> EndEvents(stack, visits, toRemoveFromStack),
     ended |-> [k \in 1 .. Len(toRemoveFromStack) |-> stack[toRemoveFromStack[k]]]]

CollectVisits(stack, visits) == Collect(stack, visits, MarkedIndices(stack, visits))

ForEachObject(stack, deltaOf) ==
    CollectVisits(stack, [o \in Objects |-> Visits(o, deltaOf[o], Count(stack, o))])

\* Line 408: the marked indices are spliced out one after the other.
RemoveMarked(stack, toRemoveFromStack) == SpliceAll(stack, toRemoveFromStack)

\* Lines 410-416: the stack length after the removals.
LengthAfter(length, toRemoveFromStack) ==
    IF length - Len(toRemoveFromStack) <= 0 THEN 0 ELSE length - Len(toRemoveFromStack)

\* Lines 413-416: the loop flag after the removals.
RunningAfter(running, length, toRemoveFromStack) ==
    IF length - Len(toRemoveFromStack) <= 0 THEN FALSE ELSE running

Bump(n) == IF n < CountCap THEN n + 1 ELSE n

\* Lines 408-422 once the forEach has run with result r.
FinishFrame(r, stack, running) ==
    /\ cache' = r.cache
    /\ transform' = [o \in Objects |->
                        IF Count(decelerationStack, o) > 0 THEN r.cache[o].matrix
                        ELSE transform[o]]
    /\ decelerationStack' = stack
    /\ stackLength' = LengthAfter(stackLength, r.toRemoveFromStack)
    /\ animationLoopRunning' = running
    /\ emitted' = r.emitted \o <<Event("decelerate", NULL, ZeroXY, stack)>>
    /\ frameRequests' = IF running THEN frameRequests ELSE frameRequests - 1
    /\ coast' = [o \in Objects |-> IF Count(r.ended, o) > 0 THEN "ended" ELSE coast[o]]
    /\ endCount' = [o \in Objects |->
                       IF Count(r.ended, o) > 0 THEN Bump(endCount[o]) ELSE endCount[o]]

RunFrame(r) ==
    FinishFrame(r, RemoveMarked(decelerationStack, r.toRemoveFromStack),
                RunningAfter(animationLoopRunning, stackLength, r.toRemoveFromStack))

\* The deltaTime each object sees in a frame.
DeltaOf(frameDelta, firstDelta) ==
    [o \in Objects |-> IF enqueuedSinceFrame[o] THEN firstDelta[o] ELSE frameDelta]

progressAnimations(frameDelta, firstDelta) ==
    /\ frameRequests > 0
    /\ \A o \in Objects :
          /\ firstDelta[o] <= frameDelta
          /\ (~enqueuedSinceFrame[o] \/ Count(decelerationStack, o) = 0)
                => firstDelta[o] = frameDelta
    /\ RunFrame(ForEachObject(decelerationStack, DeltaOf(frameDelta, firstDelta)))
    /\ enqueuedSinceFrame' = [o \in Objects |-> FALSE]
    /\ call' = [handler |-> "progressAnimations", object |-> NULL]
    /\ UNCHANGED <<settings, currentObject, enabled, mouseIsDown, drags>>

(***************************************************************************)
(* The event bus: on / off / once / trigger                                *)
(***************************************************************************)
\* Number of handler functions the page registers.
NumHandlers == 4

Handlers == 1 .. NumHandlers

\* Longest listener list of the model.
MaxListeners == 3

\* Event types the page passes that the constructor did not create.
UnknownNames == {"click", "__proto__"}

\* The event types the page passes to on / off / once / trigger.
BusNames == {"stop"} \cup UnknownNames

\* A listener: the handler function itself, or the closure that once builds
\* around it (lines 101-105).
Plain(h) == [fn |-> h, once |-> FALSE]
Closure(h) == [fn |-> h, once |-> TRUE]

\* What a handler function does when it is called, besides being recorded:
\* nothing, this.off(event, itself), or this.off(event, handler 1).
HandlerBody(h) ==
    IF h % 4 = 3 THEN "off-self" ELSE IF h % 4 = 0 THEN "off-first" ELSE "nothing"

\* typeof this.events[event] === 'object' (lines 62, 80, 119): true for the
\* arrays of the constructor and for the inherited events.__proto__.
IsObject(event) == event \in EventNames \/ event = "__proto__"

\* this.events[event] is an array, with indexOf, push, splice and forEach.
IsArray(event) == event \in EventNames

\* The call throws: the Error of lines 63, 81, 120, or the TypeError of
\* calling indexOf / forEach on an object that is not an array.
Throws(event) == ~IsObject(event) \/ ~IsArray(event)

\* A variant of OnList that pushes the callback without looking for it.
OnList_Always(list, callback) == Append(list, callback)

\* Lines 66-70: the listener list after on(event, callback).
OnList(list, callback) ==
    IF IndexOf(list, callback) # 0 THEN list ELSE Append(list, callback)

\* Lines 84-90: the listener list after off(event, callback).
OffList(list, callback) ==
    IF IndexOf(list, callback) = 0 THEN list ELSE Splice(list, IndexOf(list, callback))

\* Lines 101-107: once registers a closure that no list holds yet.
OnceList(list, h) == Append(list, Closure(h))

\* The body of handler function h, run while list is being triggered.
RunBody(h, list) ==
    IF HandlerBody(h) = "off-self" THEN OffList(list, Plain(h))
    ELSE IF HandlerBody(h) = "off-first" THEN OffList(list, Plain(1))
    ELSE list

\* Calling one listener: the handler function runs; the closure of once then
\* calls this.off(event, callback) with the handler function (line 104).
InvokeListener(listener, list) ==
    IF listener.once THEN OffList(RunBody(listener.fn, list), Plain(listener.fn))
    ELSE RunBody(listener.fn, list)

\* Line 123: forEach visits the indices below the length the array had at the
\* start and reads the array as it is when each index is reached.
RECURSIVE TriggerLoop(_, _, _, _)
TriggerLoop(list, k, length, log) ==
    IF k > length THEN [list |-> list, invoked |-> log]
    ELSE IF k > Len(list) THEN TriggerLoop(list, k + 1, length, log)
    ELSE TriggerLoop(InvokeListener(list[k], list), k + 1, length, Append(log, list[k].fn))

TriggerList(list) == TriggerLoop(list, 1, Len(list), <<>>)

\* A variant of Raise that returns silently.
Raise_Silent(lists) ==
    /\ events' = lists
    /\ invoked' = <<>>
    /\ thrown' = FALSE

\* The call throws: no list changes and no handler runs.
Raise(lists) ==
    /\ events' = lists
    /\ invoked' = <<>>
    /\ thrown' = TRUE

\* The call returns with the listener list of event replaced by list.
Return(event, list, log) ==
    /\ events' = [events EXCEPT ![event] = list]
    /\ invoked' = log
    /\ thrown' = FALSE

on(event, callback) ==
    /\ call' = [handler |-> "on", event |-> event, callback |-> callback]
    /\ IF Throws(event) THEN Raise(events)
       ELSE /\ Len(OnList(events[event], callback)) <= MaxListeners
            /\ Return(event, OnList(events[event], callback), <<>>)

off(event, callback) ==
    /\ call' = [handler |-> "off", event |-> event, callback |-> callback]
    /\ IF Throws(event) THEN Raise(events)
       ELSE Return(event, OffList(events[event], callback), <<>>)

once(event, h) ==
    /\ call' = [handler |-> "once", event |-> event, callback |-> Plain(h)]
    /\ IF Throws(event) THEN Raise(events)
       ELSE /\ Len(events[event]) < MaxListeners
            /\ Return(event, OnceList(events[event], h), <<>>)

trigger(event) ==
    /\ call' = [handler |-> "trigger", event |-> event]
    /\ IF Throws(event) THEN Raise(events)
       ELSE Return(event, TriggerList(events[event]).list, TriggerList(events[event]).invoked)

On == \E event \in BusNames, h \in Handlers : on(event, Plain(h))

Off == \E event \in BusNames, h \in Handlers : off(event, Plain(h))

Once == \E event \in BusNames, h \in Handlers : once(event, h)

Trigger == \E event \in BusNames : trigger(event)

BusNext ==
    /\ On \/ Off \/ Once \/ Trigger
    /\ UNCHANGED <<settings, currentObject, decelerationStack, stackLength,
                   animationLoopRunning, frameRequests, enabled, mouseIsDown, cache,
                   transform, enqueuedSinceFrame, emitted, coast, endCount, drags,
                   args, result>>

BusSpec == Init /\ [][BusNext]_vars

(***************************************************************************)
(* enable / disable                                                        *)
(***************************************************************************)
disable(o) ==
    /\ enabled' = [enabled EXCEPT ![o] = FALSE]
    /\ call' = [handler |-> "disable", object |-> o]
    /\ emitted' = <<>>
    /\ UNCHANGED <<settings, currentObject, decelerationStack, stackLength,
                   animationLoopRunning, frameRequests, mouseIsDown, cache, transform,
                   enqueuedSinceFrame, coast, endCount, drags>>

enable(o) ==
    /\ enabled' = [enabled EXCEPT ![o] = TRUE]
    /\ call' = [handler |-> "enable", object |-> o]
    /\ emitted' = <<>>
    /\ UNCHANGED <<settings, currentObject, decelerationStack, stackLength,
                   animationLoopRunning, frameRequests, mouseIsDown, cache, transform,
                   enqueuedSinceFrame, coast, endCount, drags>>

(***************************************************************************)
(* Specification                                                           *)
(***************************************************************************)
\* A mousedown on object o lands inside its bounding rectangle.
ClientAt(o, grab) ==
    XY(Add(BoundingClientRect(o, transform[o]).left, grab.X),
       Add(BoundingClientRect(o, transform[o]).top, grab.Y))

MouseDown == \E o \in Objects, grab \in GrabPoints : onMouseDown(o, ClientAt(o, grab))

MouseMove ==
    \E x \in ClientXs, y \in ClientYs, deltaTime \in MoveDeltas :
        onMouseMove(XY(I(x), I(y)), deltaTime)

MouseUp == \E deltaTime \in UpDeltas : onMouseUp(deltaTime)

Frame ==
    \E frameDelta \in FrameDeltas, firstDelta \in [Objects -> FirstFrameDeltas] :
        progressAnimations(frameDelta, firstDelta)

Next ==
    /\ MouseDown \/ MouseMove \/ MouseUp \/ Frame
    /\ UNCHANGED <<args, result, bus>>

Spec == Init /\ [][Next]_vars

\* The drag state machine alone, on wider inputs: a session in which the user
\* only ever grabs one of the objects and no frame runs.
DragMouseDown ==
    \E o \in Objects, grab \in GrabPoints :
        /\ \A other \in Objects \ {o} : ~mouseIsDown[other]
        /\ onMouseDown(o, ClientAt(o, grab))

DragMouseMove ==
    \E x \in DragClientXs, y \in DragClientYs, deltaTime \in DragMoveDeltas :
        onMouseMove(XY(I(x), I(y)), deltaTime)

DragMouseUp == \E deltaTime \in DragUpDeltas : onMouseUp(deltaTime)

Disable == \E o \in Objects : disable(o)

Enable == \E o \in Objects : enable(o)

\* The public methods called by the page's own code during a session with one
\* of the objects, between two frames: enable, disable and
\* animateDeceleration next to the pointer events.
Solo(o) ==
    \A other \in Objects \ {o} :
        ~mouseIsDown[other] /\ enabled[other] /\ Count(decelerationStack, other) = 0

\* The object has a cache: onMouseDown has run cacheProperties on it.
HasCache(o) == mouseIsDown[o]

\* Longest deceleration stack of the model.
MaxStack == 2

\* draggable.animateDeceleration(object) called directly.
Enqueue(o) ==
    /\ HasCache(o)
    /\ Len(decelerationStack) < MaxStack
    /\ animateDeceleration(o, cache[o].position, <<>>)
    /\ call' = [handler |-> "animateDeceleration", object |-> o]
    /\ UNCHANGED <<settings, currentObject, enabled, mouseIsDown, cache, transform, drags>>

ApiMouseDown ==
    \E o \in Objects, grab \in GrabPoints : Solo(o) /\ onMouseDown(o, ClientAt(o, grab))

ApiDisable == \E o \in Objects : Solo(o) /\ disable(o)

ApiEnable == \E o \in Objects : Solo(o) /\ enable(o)

ApiEnqueue == \E o \in Objects : Solo(o) /\ Enqueue(o)

ApiNext ==
    /\ ApiMouseDown \/ MouseMove \/ MouseUp \/ ApiDisable \/ ApiEnable \/ ApiEnqueue
    /\ UNCHANGED <<args, result, bus>>

ApiSpec == Init /\ [][ApiNext]_vars

DragNext ==
    /\ DragMouseDown \/ DragMouseMove \/ DragMouseUp
    /\ UNCHANGED <<args, result, bus>>

DragSpec == Init /\ [][DragNext]_vars


(***************************************************************************)
(* getBoundsRelativeTo on its own: every combination of object size,       *)
(* container size and margin below                                         *)
(***************************************************************************)
BoundsWidths == {100, 480, 500, 501, 600}
BoundsHeights == {50, 300, 350}
BoundsMarginsX == {-5, 0, 15}
BoundsMarginsY == {0, 20}
BoundsContainers == {MakeRect(I(20), I(10), I(500), I(300))}

BoundsArgs ==
    { [objectMargin |-> XY(I(mx), I(my)),
       objectRect |-> MakeRect(I(30), I(40), I(w), I(h)),
       toRect |-> to] :
        mx \in BoundsMarginsX, my \in BoundsMarginsY,
        w \in BoundsWidths, h \in BoundsHeights, to \in BoundsContainers }

BoundsInit ==
    /\ EngineInit
    /\ args \in BoundsArgs
    /\ result = <<>>

CallGetBounds ==
    /\ result = <<>>
    /\ result' = <<getBoundsRelativeTo(args.objectMargin, args.objectRect, args.toRect)>>
    /\ UNCHANGED <<engine, args, bus>>

BoundsSpec == BoundsInit /\ [][CallGetBounds]_vars


(***************************************************************************)
(* One visit of progressAnimations' forEach on its own: every combination  *)
(* of velocity, position, bounds and deltaTime below                       *)
(***************************************************************************)
\* Infinity is the velocity a mousemove with deltaTime 0 leaves behind.
TickVelocitiesX == {Q(-1, 2), Zero, Q(1, 2000), Q(1, 2), PosInf}
TickVelocitiesY == {Zero, Q(-1, 2)}
TickPositionsX == {I(0), I(100), I(390), Q(4127, 10)}
TickPositionsY == {I(0), I(120), Q(-18, 5)}

\* 0 ms is a frame in the millisecond of the release; 16 ms is a frame at
\* 60 Hz; 3000 ms is the first frame after the tab was in the background.
TickDeltas == {0, 16, 100, 1000, 3000}

\* Bounds that getBoundsRelativeTo returns: a 100x50 object in the 500x300
\* container, an object of the container's size, and a 480x290 object with
\* a margin of 15 in the container.
TickBounds ==
    { [minX |-> I(0), maxX |-> I(400), minY |-> I(0), maxY |-> I(250)],
      [minX |-> I(0), maxX |-> I(0), minY |-> I(0), maxY |-> I(0)],
      [minX |-> I(15), maxX |-> I(5), minY |-> I(15), maxY |-> I(-5)] }

TickArgs ==
    { [cache |-> [EmptyCache EXCEPT !.velocity = XY(vx, vy), !.position = XY(px, py),
                                    !.objectBounds = b],
       deltaTime |-> deltaTime] :
        vx \in TickVelocitiesX, vy \in TickVelocitiesY, px \in TickPositionsX,
        py \in TickPositionsY, b \in TickBounds, deltaTime \in TickDeltas }

TickInit ==
    /\ EngineInit
    /\ args \in TickArgs
    /\ result = <<>>

CallTick ==
    /\ result = <<>>
    /\ result' = <<ProcessObject(args.cache, args.deltaTime)>>
    /\ UNCHANGED <<engine, args, bus>>

TickSpec == TickInit /\ [][CallTick]_vars


(***************************************************************************)
(* Claims about getBoundsRelativeTo (BoundsSpec)                           *)
(***************************************************************************)
Called == result # <<>>
Bounds == result[1]

\* The extents of the call's rectangles on an axis.
ObjectExtent(axis) == IF axis = "X" THEN args.objectRect.width ELSE args.objectRect.height
ContainerExtent(axis) == IF axis = "X" THEN args.toRect.width ELSE args.toRect.height
Oversized(axis) == Gt(ObjectExtent(axis), ContainerExtent(axis))

\* C6: for every object rectangle, container rectangle and margin the bounds
\* satisfy minX <= maxX and minY <= maxY.
C6_BoundsOrdered ==
    Called => /\ Leq(Bounds.minX, Bounds.maxX)
              /\ Leq(Bounds.minY, Bounds.maxY)

\* C7: on an axis where the object is not larger than the container,
\* min = 0 - margin and max = containerExtent - objectExtent - margin, each
\* axis with its own margin.
C7_DefaultBounds ==
    Called =>
        \A axis \in Axes :
            ~Oversized(axis) =>
                /\ BoundOf(Bounds, "min", axis) = Sub(Zero, args.objectMargin[axis])
                /\ BoundOf(Bounds, "max", axis) =
                       Sub(Sub(ContainerExtent(axis), ObjectExtent(axis)),
                           args.objectMargin[axis])

\* The call with the object's extent on one axis replaced by the container's.
FittedArgs(axis) ==
    IF axis = "X"
    THEN MakeRect(args.objectRect.left, args.objectRect.top,
                  args.toRect.width, args.objectRect.height)
    ELSE MakeRect(args.objectRect.left, args.objectRect.top,
                  args.objectRect.width, args.toRect.height)

OtherAxis(axis) == IF axis = "X" THEN "Y" ELSE "X"

\* C8: on an axis where the object is strictly larger than the container,
\* min = -(objectExtent - containerExtent) and max = 0 whatever the margin,
\* and the bounds of the other axis are what they are for an object that
\* fits on this axis.
C8_OversizedBounds ==
    Called =>
        \A axis \in Axes :
            Oversized(axis) =>
                /\ BoundOf(Bounds, "min", axis) =
                       Neg(Sub(ObjectExtent(axis), ContainerExtent(axis)))
                /\ BoundOf(Bounds, "max", axis) = Zero
                /\ \A bound \in {"min", "max"} :
                       BoundOf(Bounds, bound, OtherAxis(axis)) =
                           BoundOf(getBoundsRelativeTo(args.objectMargin, FittedArgs(axis),
                                                       args.toRect),
                                   bound, OtherAxis(axis))

\* An oversized object with a non-zero margin on the oversized axis.
C8_Witness ==
    /\ Called
    /\ Oversized("X")
    /\ ~Oversized("Y")
    /\ args.objectMargin.X # Zero
    /\ Bounds.minX = I(-100)


(***************************************************************************)
(* Claims about dragging (DragSpec)                                        *)
(***************************************************************************)
\* The last handler was a mousemove that moved the dragged object.
MovedDrag ==
    /\ call.handler = "onMouseMove"
    /\ call.object # NULL
    /\ mouseIsDown[call.object]

\* The raw target of that mousemove on an axis: the cursor's offset in the
\* container minus the grab offset.
RawOf(axis) ==
    Sub(getCursorPositionRelativeTo(call.client, ContainerRect)[axis],
        cache[call.object].initialCursorPosRelativeToObject[axis])

\* The grab offset of an object is the one its mousedown captured.
GrabAnchored ==
    \A o \in Objects :
        mouseIsDown[o] => cache[o].initialCursorPosRelativeToObject \in GrabPoints

StrictlyInside(raw, objectBounds, axis) ==
    /\ Lt(BoundOf(objectBounds, "min", axis), raw)
    /\ Lt(raw, BoundOf(objectBounds, "max", axis))

\* C9: on each axis where the raw target (cursor offset in the container minus
\* the grab offset captured at mousedown) lies strictly between min and max,
\* every mousemove of a drag writes exactly the raw target as the position;
\* the grab offset is never re-anchored.
C9_InsideFollowsCursor ==
    /\ GrabAnchored
    /\ MovedDrag =>
           \A axis \in Axes :
               StrictlyInside(RawOf(axis), cache[call.object].objectBounds, axis)
                   => cache[call.object].position[axis] = RawOf(axis)

\* A second move of a drag, inside the bounds on both axes.
C9_Witness ==
    /\ MovedDrag
    /\ call.object = 2
    /\ RawOf("X") = I(200)
    /\ cache[2].hasMoved
    /\ cache[2].position = XY(I(200), I(100))
    /\ cache[2].velocity = ZeroXY
    /\ cache[2].initialCursorPosRelativeToObject = XY(I(10), I(5))

\* The position the claim gives for a raw target past a bound.
Damped(raw, boundValue) ==
    Add(boundValue, Mul(Sub(raw, boundValue), Sub(One, settings.edgeFriction)))

\* The raw target is past the bound on the axis.
Past(raw, objectBounds, bound, axis) ==
    /\ Leq(BoundOf(objectBounds, "min", axis), BoundOf(objectBounds, "max", axis))
    /\ IF bound = "min" THEN Lt(raw, BoundOf(objectBounds, bound, axis))
       ELSE Gt(raw, BoundOf(objectBounds, bound, axis))

\* C10: on each axis, a raw target past a bound by D (below min or above max,
\* min <= max) is written as bound + D * (1 - edgeFriction): the bound itself
\* for edgeFriction 1, the raw target for edgeFriction 0, and 412.5 for
\* edgeFriction 0.75, maxX 400 and raw X 450.
C10_PastBoundDamped ==
    MovedDrag =>
        \A axis \in Axes, bound \in {"min", "max"} :
            Past(RawOf(axis), cache[call.object].objectBounds, bound, axis) =>
                LET b == BoundOf(cache[call.object].objectBounds, bound, axis)
                    written == cache[call.object].position[axis]
                IN  /\ written = Damped(RawOf(axis), b)
                    /\ settings.edgeFriction = One => written = b
                    /\ settings.edgeFriction = Zero => written = RawOf(axis)
                    /\ (/\ settings.edgeFriction = Q(3, 4)
                        /\ b = I(400)
                        /\ RawOf(axis) = I(450)) => written = Q(825, 2)

\* The cursor 50 px past maxX = 400 with edgeFriction 0.75.
C10_Witness ==
    /\ MovedDrag
    /\ call.object = 1
    /\ RawOf("X") = I(450)
    /\ settings.edgeFriction = Q(3, 4)
    /\ cache[1].objectBounds.maxX = I(400)
    /\ cache[1].position.X = Q(825, 2)


(***************************************************************************)
(* Claims about the deceleration loop (Spec)                               *)
(***************************************************************************)
InStack(o) == Count(decelerationStack, o) > 0

\* The events of the last handler that are named name and are about o.
EventsOf(name, o) ==
    {i \in 1 .. Len(emitted) : emitted[i].name = name /\ emitted[i].object = o}

Ticked == call.handler = "progressAnimations"

\* C1: repeated ticks bring a coasting object below the threshold, and the
\* tick that does so removes it from the deceleration stack and ends its
\* simulation.  In every state: an object whose coast has reached the
\* threshold is out of the stack, and an object still in the stack has a
\* frame callback pending that will tick it.
C1_CoastTerminates ==
    \A o \in Objects :
        /\ coast[o] = "ended" => ~InStack(o)
        /\ InStack(o) => frameRequests > 0

\* C2: in the tick in which both speeds of a coasting object are below the
\* threshold, deceleration-end and then stop are emitted exactly once for it
\* and the object is absent from the stack after that tick, for any number
\* of objects reaching the threshold in the same tick.
C2_EndsOnce ==
    \A o \in Objects :
        /\ endCount[o] <= 1
        /\ Ticked =>
               /\ Cardinality(EventsOf("deceleration-end", o)) <= 1
               /\ \A i \in EventsOf("deceleration-end", o) :
                      /\ BelowThreshold(cache[o].velocity)
                      /\ i + 1 \in EventsOf("stop", o)
                      /\ Cardinality(EventsOf("stop", o)) = 1
                      /\ ~InStack(o)

\* The last handler was a mouseup that released object o with a velocity,
\* with deceleration enabled.
ReleasedMoving(o) ==
    /\ call.handler = "onMouseUp"
    /\ call.object = o
    /\ settings.deceleration
    /\ \/ cache[o].velocity.X # Zero
       \/ cache[o].velocity.Y # Zero

\* C3: a mouseup that ends a drag with a velocity on at least one axis, with
\* deceleration enabled, puts the object into the stack exactly once and
\* emits deceleration-start for it, after drag-end and before any decelerate
\* event of a tick that processes it: no tick finds an object in the stack
\* whose deceleration-start has not been emitted.
C3_EnqueuedOnce ==
    \A o \in Objects :
        /\ ReleasedMoving(o) =>
               /\ Count(decelerationStack, o) = 1
               /\ Cardinality(EventsOf("deceleration-start", o)) = 1
               /\ \A i \in 1 .. Len(emitted) : emitted[i].name # "decelerate"
               /\ coast[o] = "started"
        /\ InStack(o) => coast[o] # "none"
        /\ (Ticked /\ EventsOf("deceleration-end", o) # {}) => coast[o] = "ended"

C3_Witness ==
    /\ ReleasedMoving(2)
    /\ decelerationStack = <<1, 2>>
    /\ emitted[2].name = "deceleration-start"

\* C4: the object being dragged is never in the deceleration stack: mousedown
\* on a coasting object removes it before drag-start is emitted, and no tick
\* that runs afterwards changes its position or velocity while it is dragged.
C4_DraggedNotCoasting ==
    [][/\ currentObject' # NULL => Count(decelerationStack', currentObject') = 0
       /\ \A i \in 1 .. Len(emitted') :
              emitted'[i].name = "drag-start"
                  => Count(emitted'[i].stack, emitted'[i].object) = 0
       /\ (call'.handler = "progressAnimations" /\ currentObject # NULL)
              => /\ cache'[currentObject] = cache[currentObject]
                 /\ transform'[currentObject] = transform[currentObject]]_vars

\* The tick that object 1's coast had scheduled runs after object 1 was
\* grabbed again.
C4_Witness ==
    /\ Ticked
    /\ currentObject = 1
    /\ drags = 2
    /\ cache[2] = EmptyCache
    /\ emitted[1].name = "decelerate"

\* C5: at most one frame callback is pending, and one is pending exactly
\* when animationLoopRunning is true.
C5_SingleFrameChain ==
    /\ frameRequests <= 1
    /\ (frameRequests = 1) <=> animationLoopRunning

\* Two objects coast, one of them released after a re-grab.
C5_Witness ==
    /\ call.handler = "onMouseUp"
    /\ Len(decelerationStack) = 2
    /\ drags = MaxDrags
    /\ frameRequests = 1


(***************************************************************************)
(* Claims about one visit of the tick (TickSpec)                           *)
(***************************************************************************)
\* What the visit returned: the new cache and the mark.
Visited == result[1]

\* The velocity and position of an axis after friction and the advance,
\* before the bounds are looked at.
DecayedVelocity(axis) == Decay(args.cache.velocity[axis], args.deltaTime)
NewPosition(axis) == Advance(args.cache.position[axis], DecayedVelocity(axis), args.deltaTime)

\* The new position meets or exceeds the bound and the velocity points past it.
Hits(bound, axis) ==
    IF bound = "min"
    THEN /\ Leq(NewPosition(axis), BoundOf(args.cache.objectBounds, "min", axis))
         /\ Lt(DecayedVelocity(axis), Zero)
    ELSE /\ Leq(BoundOf(args.cache.objectBounds, "max", axis), NewPosition(axis))
         /\ Gt(DecayedVelocity(axis), Zero)

\* C11: when the new position on an axis meets or exceeds a bound while the
\* velocity points further past it, the tick stores -velocity * (1 -
\* bounceFriction) as the velocity and the bound itself as the position.
C11_BounceReflects ==
    Called =>
        \A axis \in Axes, bound \in {"min", "max"} :
            Hits(bound, axis) =>
                /\ Visited.cache.velocity[axis] =
                       Neg(Mul(DecayedVelocity(axis), Sub(One, settings.bounceFriction)))
                /\ Visited.cache.position[axis] =
                       BoundOf(args.cache.objectBounds, bound, axis)

\* Released with velocity {X: 0.5, Y: 0}, friction 1, ticked after 100 ms and
\* more than 50 px away from the bounds on X.
HalfPixelScenario ==
    /\ Called
    /\ args.cache.velocity = XY(Q(1, 2), Zero)
    /\ settings.friction = One
    /\ args.deltaTime = 100
    /\ Lt(args.cache.objectBounds.minX, args.cache.position.X)
    /\ Lt(Add(args.cache.position.X, I(50)), args.cache.objectBounds.maxX)

Advanced(axis) == Sub(Visited.cache.position[axis], args.cache.position[axis])

\* C12 as stated: in that scenario the tick leaves velocity.X = 0.45 and has
\* advanced the X position by 50.
C12_AdvancesByFifty ==
    HalfPixelScenario =>
        /\ Visited.cache.velocity.X = Q(9, 20)
        /\ Advanced("X") = I(50)

\* C12 amended: in that scenario the tick leaves velocity.X = 0.45 and has
\* advanced the X position by 0.45 * 100 = 45, the velocity after friction
\* times the elapsed time; Y is untouched.
C12_AdvancesByFortyFive ==
    HalfPixelScenario =>
        /\ Visited.cache.velocity = XY(Q(9, 20), Zero)
        /\ Advanced("X") = I(45)
        /\ Advanced("Y") = Zero
        /\ ~Visited.marked

C12_Witness ==
    /\ HalfPixelScenario
    /\ args.cache.position.X = I(100)
    /\ Visited.cache.position.X = I(145)

\* C21: a tick never increases the magnitude of either axis velocity of a
\* coasting object, whatever the elapsed time.
C21_NoRunawayVelocity ==
    Called =>
        \A axis \in Axes :
            ~Gt(MathAbs(Visited.cache.velocity[axis]), MathAbs(args.cache.velocity[axis]))

\* The position of an axis the visit computed, before the rounding of line 393.
Computed(axis) ==
    DecelerateAxis(args.cache.velocity[axis], args.cache.position[axis], args.deltaTime,
                   args.cache.objectBounds, axis).position

\* n is an integer nearest to x.
NearestInteger(n, x) ==
    /\ n[2] = 1
    /\ Leq(MathAbs(Sub(x, n)), Q(1, 2))

\* C30: when a visit marks the object for removal, the position it stores is
\* on each axis the integer nearest to the computed position, for positive
\* and negative positions alike.
C30_RestRoundsToNearest ==
    (Called /\ Visited.marked) =>
        \A axis \in Axes : NearestInteger(Visited.cache.position[axis], Computed(axis))

\* The velocity the claim gives for an axis: velocity * (1 - elapsed / 1000 * friction).
ClaimedVelocity(axis) ==
    Mul(args.cache.velocity[axis],
        Sub(One, Mul(Div(I(args.deltaTime), I(1000)), settings.friction)))

\* The position the claim gives for an axis: advanced by the decayed velocity
\* times the elapsed time, unchanged for a decayed velocity of zero.
ClaimedPosition(axis) ==
    IF ClaimedVelocity(axis) = Zero THEN args.cache.position[axis]
    ELSE Add(args.cache.position[axis], Mul(ClaimedVelocity(axis), I(args.deltaTime)))

\* No pass of the bounce loop fires on the axis.
NoBounce(axis) == ~Hits("min", axis) /\ ~Hits("max", axis)

\* C31: on each axis a visit first multiplies the velocity by
\* 1 - (elapsed / 1000 * friction) and then advances the position by the
\* decayed velocity times elapsed; a velocity decayed to exactly zero leaves
\* the position where it was.  (Where no bounce fires; a marked visit stores
\* the position cut to an integer.)
C31_DecayThenAdvance ==
    Called =>
        \A axis \in Axes :
            (IsFinite(args.cache.velocity[axis]) /\ NoBounce(axis)) =>
                /\ Visited.cache.velocity[axis] = ClaimedVelocity(axis)
                /\ ~Visited.marked => Visited.cache.position[axis] = ClaimedPosition(axis)
                /\ Visited.marked =>
                       Visited.cache.position[axis] = ToInt32(ClaimedPosition(axis))

\* A visit after 16 ms with friction 1: the X velocity 0.5 decays to 0.492 and
\* X advances by 0.492 * 16 = 7.872; the Y velocity is zero and Y stays.
C31_Witness ==
    /\ Called
    /\ args.deltaTime = 16
    /\ settings.friction = One
    /\ args.cache.velocity = XY(Q(1, 2), Zero)
    /\ args.cache.position = XY(I(100), I(120))
    /\ args.cache.objectBounds.maxX = I(400)
    /\ Visited.cache.velocity = XY(Q(123, 250), Zero)
    /\ Visited.cache.position = XY(Q(13484, 125), I(120))
    /\ ~Visited.marked

\* C32: a position within [min, max] on an axis before a tick (min <= max)
\* is within [min, max] on that axis after the tick, for any velocity,
\* elapsed time and friction.
C32_NoTunneling ==
    Called =>
        \A axis \in Axes :
            (/\ Leq(BoundOf(args.cache.objectBounds, "min", axis),
                    BoundOf(args.cache.objectBounds, "max", axis))
             /\ Leq(BoundOf(args.cache.objectBounds, "min", axis), args.cache.position[axis])
             /\ Leq(args.cache.position[axis], BoundOf(args.cache.objectBounds, "max", axis)))
                => /\ Leq(BoundOf(args.cache.objectBounds, "min", axis),
                          Visited.cache.position[axis])
                   /\ Leq(Visited.cache.position[axis],
                          BoundOf(args.cache.objectBounds, "max", axis))


(***************************************************************************)
(* Claims about the public methods (ApiSpec)                               *)
(***************************************************************************)
\* The step is a mousedown on object o.
IsMouseDownOn(o) == call'.handler = "onMouseDown" /\ call'.object = o /\ drags' = drags + 1

\* C13: a mousedown on a disabled object is ignored: the dragged object, the
\* deceleration stack, the object's cache (position, velocity, bounds), its
\* transform and the loop flag are unchanged and no event is emitted; on an
\* enabled object, in particular after enable(object), the same mousedown
\* starts a drag.
C13_DisabledIgnored ==
    [][\A o \in Objects :
           /\ (IsMouseDownOn(o) /\ ~enabled[o]) =>
                  /\ currentObject' = currentObject
                  /\ decelerationStack' = decelerationStack
                  /\ stackLength' = stackLength
                  /\ cache'[o] = cache[o]
                  /\ transform'[o] = transform[o]
                  /\ mouseIsDown'[o] = mouseIsDown[o]
                  /\ animationLoopRunning' = animationLoopRunning
                  /\ frameRequests' = frameRequests
                  /\ emitted' = <<>>
           /\ (IsMouseDownOn(o) /\ enabled[o]) =>
                  /\ currentObject' = o
                  /\ emitted' = <<Event("drag-start", o, cache'[o].position,
                                        decelerationStack')>>
           /\ (call'.handler = "enable" /\ call'.object = o) => enabled'[o]
           /\ (call'.handler = "disable" /\ call'.object = o) => ~enabled'[o]]_vars

\* A mousedown on an object that was disabled while it coasted.
C13_Witness ==
    /\ call.handler = "onMouseDown"
    /\ ~enabled[call.object]
    /\ emitted = <<>>
    /\ currentObject = NULL
    /\ decelerationStack = <<call.object>>
    /\ drags = 2

\* C19: animateDeceleration on an object that is already in the deceleration
\* stack is a no-op: the stack is unchanged and no frame loop is started.
C19_EnqueueOnce ==
    [][\A o \in Objects :
           (/\ call'.handler = "animateDeceleration"
            /\ call'.object = o
            /\ Count(decelerationStack, o) > 0)
               => /\ decelerationStack' = decelerationStack
                  /\ frameRequests' = frameRequests]_vars


(***************************************************************************)
(* Claims about the velocity sample (DragSpec)                             *)
(***************************************************************************)
FiniteXY(v) == IsFinite(v.X) /\ IsFinite(v.Y)

\* C20: a mousemove with zero elapsed time since the previous sample does not
\* update the velocity, so the velocity of a dragged object stays finite
\* after every mousemove and no release enqueues an object with a velocity
\* that is not finite.
C20_VelocityStaysFinite ==
    /\ MovedDrag => FiniteXY(cache[call.object].velocity)
    /\ \A o \in Objects : InStack(o) => FiniteXY(cache[o].velocity)


(***************************************************************************)
(* Claims about the event bus (BusSpec)                                    *)
(***************************************************************************)
\* The last call was handler(event, ...) and it returned.
Returned(handler) == call.handler = handler /\ ~thrown

\* The handler functions a trigger of the event would run now.
WouldInvoke(event) ==
    {TriggerList(events[event]).invoked[i] :
        i \in 1 .. Len(TriggerList(events[event]).invoked)}

\* C14: a handler registered with once runs in the first trigger after the
\* registration and in no later one: after a trigger, no closure of once
\* whose handler ran in it is left in the listener list.
C14_OnceUnsubscribes ==
    Returned("trigger") =>
        \A i \in 1 .. Len(events[call.event]) :
            events[call.event][i].once => Count(invoked, events[call.event][i].fn) = 0

\* C15: off(event, h) with the handler passed to once cancels the
\* subscription: after it returns, a trigger of the event does not run h.
C15_OffCancelsOnce ==
    Returned("off") => call.callback.fn \notin WouldInvoke(call.event)

\* Every listener of the list is a handler registered with on that leaves the
\* list alone.
AllPassive(list) ==
    \A i \in 1 .. Len(list) : ~list[i].once /\ HandlerBody(list[i].fn) = "nothing"

\* C16: on is idempotent: on(event, h) for a registered h leaves the listener
\* list unchanged, no list holds h twice, a trigger of a list built that way
\* runs each handler exactly once, and one off(event, h) leaves no h in it.
C16_OnIdempotent ==
    [][/\ (call'.handler = "on" /\ ~thrown' /\ IndexOf(events[call'.event], call'.callback) # 0)
           => events' = events
       /\ \A h \in Handlers : Count(events'["stop"], Plain(h)) <= 1
       /\ (call'.handler = "trigger" /\ ~thrown' /\ AllPassive(events[call'.event]))
           => /\ invoked' = [i \in 1 .. Len(events[call'.event]) |-> events[call'.event][i].fn]
              /\ \A h \in Handlers : Count(invoked', h) = Count(events[call'.event], Plain(h))
       /\ (call'.handler = "off" /\ ~thrown')
           => Count(events'[call'.event], call'.callback) = 0]_vars

\* on(event, handler 1) repeated after handler 2 was registered behind it.
C16_Witness ==
    /\ Returned("on")
    /\ call.callback = Plain(1)
    /\ events["stop"] = <<Plain(1), Plain(2)>>

\* C17: on, off, once and trigger with an event name outside the fixed set
\* fail with an error, run no handler and leave every listener list unchanged.
C17_UnknownEventFails ==
    [][(call'.handler \in {"on", "off", "once", "trigger"} /\ call'.event \notin EventNames)
           => /\ thrown'
              /\ invoked' = <<>>
              /\ events' = events]_vars

\* trigger('__proto__') with two listeners registered for stop.
C17_Witness ==
    /\ call.handler = "trigger"
    /\ call.event = "__proto__"
    /\ thrown
    /\ Len(events["stop"]) = 2

\* Where handler function h first ran in the last trigger (0: it did not).
FirstRun(h) == IndexOf(invoked, h)

\* C18: when a handler removes itself or another handler during a trigger,
\* every other handler that was registered when the trigger started and was
\* not removed still runs in that trigger, exactly once unless a closure of
\* once wraps it too, and in subscription order.
C18_NoListenerSkipped ==
    Returned("trigger") =>
        \A i \in 1 .. Len(events[call.event]) :
            ~events[call.event][i].once =>
                /\ FirstRun(events[call.event][i].fn) # 0
                /\ Count(events[call.event], Closure(events[call.event][i].fn)) = 0
                       => Count(invoked, events[call.event][i].fn) = 1
                /\ \A j \in 1 .. (i - 1) :
                       ~events[call.event][j].once
                           => FirstRun(events[call.event][j].fn)
                                  < FirstRun(events[call.event][i].fn)

(***************************************************************************)
(* Claims about the stack and the frame loop (Spec)                        *)
(***************************************************************************)
\* The handler that ran in the step marked object o: it triggered
\* deceleration-end for it.
MarkedIn(triggered, o) ==
    \E i \in 1 .. Len(triggered) :
        triggered[i].name = "deceleration-end" /\ triggered[i].object = o

\* C22: a tick removes from the deceleration stack exactly the objects it
\* marked: the stack after the tick is the stack before it without the marked
\* objects, the others in their original order.
C22_RemovesExactlyMarked ==
    [][call'.handler = "progressAnimations"
           => decelerationStack' =
                  SelectSeq(decelerationStack, LAMBDA o : ~MarkedIn(emitted', o))]_vars

\* C23: between ticks a non-empty deceleration stack has the loop flag set
\* and the next tick scheduled, and a tick clears the flag only when the
\* stack is empty after its removals.
C23_LoopFlagTracksStack ==
    /\ decelerationStack # <<>> => (animationLoopRunning /\ frameRequests > 0)
    /\ (Ticked /\ ~animationLoopRunning) => decelerationStack = <<>>

\* C24: whatever mousedown, mousemove, mouseup events and ticks have run, each
\* object appears at most once in the deceleration stack.
C24_AtMostOnceInStack == \A o \in Objects : Count(decelerationStack, o) <= 1

\* Object 1 is released a second time while object 2 is in the stack.
C24_Witness ==
    /\ call.handler = "onMouseUp"
    /\ call.object = 1
    /\ decelerationStack = <<2, 1>>
    /\ drags = MaxDrags
    /\ cache[1].hasMoved

\* Position p is within [min, max] of the bounds on the axis.
Within(p, objectBounds, axis) ==
    /\ Leq(BoundOf(objectBounds, "min", axis), p)
    /\ Leq(p, BoundOf(objectBounds, "max", axis))

\* Object o was released into the stack and no tick has visited it since: its
\* cached position is the one it was released at.
JustReleased(o) == InStack(o) /\ enqueuedSinceFrame[o]

\* The stop events for object o among the triggered events.
StopsOf(triggered, o) ==
    {i \in 1 .. Len(triggered) : triggered[i].name = "stop" /\ triggered[i].object = o}

\* C26: an object released outside its bounds on an axis (deceleration
\* enabled, friction > 0) is within them on that axis when its coast ends,
\* also when the first tick after the release is the one that ends the coast.
C26_SpringBackReturns ==
    [][\A o \in Objects, axis \in Axes :
           (/\ call'.handler = "progressAnimations"
            /\ JustReleased(o)
            /\ settings.deceleration
            /\ Gt(settings.friction, Zero)
            /\ ~Within(cache[o].position[axis], cache[o].objectBounds, axis))
               => \A i \in StopsOf(emitted', o) :
                      Within(emitted'[i].position[axis], cache[o].objectBounds, axis)]_vars

(***************************************************************************)
(* Claims about the release (DragSpec)                                     *)
(***************************************************************************)
\* The step is the mouseup that releases object o.
Releases(o) == call'.handler = "onMouseUp" /\ call'.object = o /\ currentObject = o

\* The spring-back velocity for a position past a bound.
SpringVelocity(position, boundValue) == Neg(Div(Sub(position, boundValue), I(SpringDivisor)))

\* C25: at the mouseup, on each axis whose un-damped position (cursor offset
\* minus grab offset of the last mousemove) is outside [min, max], the velocity
\* becomes -(position - bound) / 100 of that un-damped position and the bound
\* it is past; on an axis strictly inside the bounds the velocity is the one
\* the pause rule left.
C25_SpringBackFromRaw ==
    [][(MovedDrag /\ Releases(call.object)) =>
           \A axis \in Axes :
               /\ \A bound \in {"min", "max"} :
                      Past(RawOf(axis), cache[call.object].objectBounds, bound, axis) =>
                          cache'[call.object].velocity[axis] =
                              SpringVelocity(RawOf(axis),
                                             BoundOf(cache[call.object].objectBounds, bound, axis))
               /\ StrictlyInside(RawOf(axis), cache[call.object].objectBounds, axis) =>
                      cache'[call.object].velocity[axis] =
                          PauseVelocity(cache[call.object], call'.deltaTime)[axis]]_vars

\* Every variable of the engine but the record of the last call and of the
\* drags counted so far.
program ==
    <<settings, currentObject, decelerationStack, stackLength, animationLoopRunning,
      frameRequests, enabled, mouseIsDown, cache, transform, events>>

\* C27: a mouseup during a drag emits drag-end first; if deceleration is
\* disabled or the velocity is zero on both axes it emits stop in the same
\* call, leaves the deceleration stack alone and requests no frame; in every
\* case no object is current afterwards; a mousemove or mouseup while no object
\* is current changes nothing and emits nothing.
C27_ReleaseGoesIdle ==
    [][/\ \A o \in Objects :
              Releases(o) =>
                  /\ emitted'[1] = Event("drag-end", o, cache[o].position, decelerationStack)
                  /\ currentObject' = NULL
                  /\ (~settings.deceleration \/ cache'[o].velocity = ZeroXY) =>
                         /\ emitted' = <<Event("drag-end", o, cache[o].position, decelerationStack),
                                         Event("stop", o, cache[o].position, decelerationStack)>>
                         /\ decelerationStack' = decelerationStack
                         /\ stackLength' = stackLength
                         /\ frameRequests' = frameRequests
                         /\ animationLoopRunning' = animationLoopRunning
       /\ (call'.handler \in {"onMouseMove", "onMouseUp"} /\ currentObject = NULL) =>
              /\ emitted' = <<>>
              /\ program' = program]_vars

\* A click: object 1 is released where it was grabbed, with deceleration on.
C27_Witness ==
    /\ call.handler = "onMouseUp"
    /\ call.object = 1
    /\ settings.deceleration
    /\ ~cache[1].hasMoved
    /\ cache[1].velocity = ZeroXY
    /\ Len(emitted) = 2
    /\ emitted[2].name = "stop"
    /\ currentObject = NULL

\* The object's position is strictly inside its bounds on the axis.
RestsInside(o, axis) == StrictlyInside(cache[o].position[axis], cache[o].objectBounds, axis)

\* C28: when the object has moved and more than 25 ms lie between the last
\* mousemove and the mouseup, the velocity is zeroed before the spring-back
\* rule, so an object released strictly inside its bounds is not enqueued and
\* stop is emitted at once; when at most 25 ms have passed the measured velocity is kept.
C28_PauseMeansNoThrow ==
    [][\A o \in Objects :
           (Releases(o) /\ cache[o].hasMoved) =>
               /\ call'.deltaTime > PauseThreshold =>
                      /\ \A axis \in Axes :
                             RestsInside(o, axis) => cache'[o].velocity[axis] = Zero
                      /\ (\A axis \in Axes : RestsInside(o, axis)) =>
                             /\ decelerationStack' = decelerationStack
                             /\ frameRequests' = frameRequests
                             /\ Len(emitted') = 2
                             /\ emitted'[2].name = "stop"
               /\ call'.deltaTime <= PauseThreshold =>
                      \A axis \in Axes :
                          RestsInside(o, axis) =>
                              cache'[o].velocity[axis] = cache[o].velocity[axis]]_vars

\* Object 1 is released inside its bounds 26 ms after its last mousemove.
C28_Witness ==
    /\ call.handler = "onMouseUp"
    /\ call.object = 1
    /\ call.deltaTime = PauseThreshold + 1
    /\ settings.deceleration
    /\ cache[1].hasMoved
    /\ cache[1].position = XY(I(200), I(100))
    /\ cache[1].velocity = ZeroXY
    /\ emitted[2].name = "stop"
    /\ decelerationStack = <<>>

\* C29: __draggable_mouseIsDown of an object is true only between a mousedown
\* on it and the following mouseup: it is false for an object that is not
\* the one being dragged.
C29_FlagOnlyWhileDown == \A o \in Objects : mouseIsDown[o] => currentObject = o

(***************************************************************************)
(* Claims about the pairing of drag events (Spec)                          *)
(***************************************************************************)
\* C33: at most one object is dragged at a time and every drag-start is
\* followed by the drag-end of the same object before the next drag-start: a
\* mousedown received while an object is being dragged emits no drag-start
\* and leaves the current object as it is.
C33_OneDragAtATime ==
    [][\A o \in Objects :
           (IsMouseDownOn(o) /\ currentObject # NULL) =>
               /\ currentObject' = currentObject
               /\ \A i \in 1 .. Len(emitted') : emitted'[i].name # "drag-start"]_vars

=============================================================================
